---------------------------- MODULE Spec2Model ----------------------------
(***************************************************************************)
(* IKE packet construction of trufflescan (src/ike.rs: IkeV1 and           *)
(* src/ikev2.rs: IkeV2): the transform generators, the transform           *)
(* normalisers (set_transforms, set_transforms_v2), the key material       *)
(* generators, the length resolvers and the byte serialisers.              *)
(*                                                                         *)
(* One behaviour is the life of one packet value, an IkeV1 or an IkeV2,    *)
(* under an arbitrary sequence of calls of its methods.  A call that       *)
(* panics ends the behaviour: the packet is left as the panic found it.    *)
(***************************************************************************)
EXTENDS Integers, Sequences, FiniteSets

VARIABLES
    packet,   \* the IkeV1 / IkeV2 value the methods are called on (self)
    call,     \* the latest call: its name, its argument, how it ended, and
              \* whether it repeats the call before it
    ret       \* what the latest call returned (<<>> for a call returning ())

vars == <<packet, call, ret>>

-----------------------------------------------------------------------------
(* Bounds of the model *)

\* set_transforms / set_transforms_v2 are given lists of every length
\* 0..MaxSmall (besides the long lists around the one-byte limit)
MaxSmall == 2

\* how many distinct random fillings the key material generators draw from
MaxFill == 1

-----------------------------------------------------------------------------
(* Integer widths and byte encodings (zerocopy network_endian) *)

U8Max == 255

U16Mod == 65536

\* u16 arithmetic of the length fields (the u32 packet length stays far below
\* 2^32 for every packet of the model and is kept as a plain integer)
WrapU16(x) == x % U16Mod

\* (mutation) `length as u8`: the count truncated into the one-byte field
u8_try_from_truncating(n) == [ok |-> TRUE, value |-> n % (U8Max + 1)]

\* u8::try_from(usize): the value when it fits, an error otherwise
u8_try_from(n) == IF n <= U8Max THEN [ok |-> TRUE, value |-> n]
                  ELSE [ok |-> FALSE, value |-> 0]

\* zerocopy::network_endian::U16::as_bytes: high byte first
BE16(x) == <<x \div 256, x % 256>>

\* zerocopy::network_endian::U32::as_bytes (values below 2^31 in the model)
BE32(x) == <<x \div 16777216, (x \div 65536) % 256, (x \div 256) % 256, x % 256>>

\* zerocopy::network_endian::U64::as_bytes (values below 2^31 in the model)
BE64(x) == <<0, 0, 0, 0>> \o BE32(x)

\* the value of a big-endian field read back from a buffer
ReadBE16(b, at) == b[at] * 256 + b[at + 1]

ReadBE32(b, at) == ((b[at] * 256 + b[at + 1]) * 256 + b[at + 2]) * 256 + b[at + 3]

\* a..=b as the sequence the iterator yields
RangeInclusive(a, b) == [i \in 1..(b - a + 1) |-> a + i - 1]

SeqRange(s) == {s[i] : i \in 1..Len(s)}

\* s[lo] + ... + s[hi], halving the range to keep the evaluation shallow
RECURSIVE SumRange(_, _, _)
SumRange(s, lo, hi) ==
    IF lo > hi THEN 0
    ELSE IF lo = hi THEN s[lo]
    ELSE LET mid == (lo + hi) \div 2
         IN  SumRange(s, lo, mid) + SumRange(s, mid + 1, hi)

SumSeq(s) == SumRange(s, 1, Len(s))

-----------------------------------------------------------------------------
(* IKEv1: code tables used by the generator (src/ike.rs) *)

\* impl From<PayloadTypeV1> for u8
PayloadTypeV1_u8(value) ==
    CASE value = "NoNextPayload" -> 0
      [] value = "SecurityAssociation" -> 1
      [] value = "Proposal" -> 2
      [] value = "Transform" -> 3
      [] value = "KeyExchange" -> 4
      [] value = "Identification" -> 5
      [] value = "Certificate" -> 6
      [] value = "CertificateRequest" -> 7
      [] value = "Hash" -> 8
      [] value = "Signature" -> 9
      [] value = "Nonce" -> 10
      [] value = "Notification" -> 11
      [] value = "VendorID" -> 13

\* n | 1 << 15 for n < 2^15
SignificantBit(n) == n + 32768

\* (mutation) the significant bit set on every attribute type
AttributeType_U16_all_significant(value) ==
    CASE value = "Encryption" -> SignificantBit(1)
      [] value = "HashType" -> SignificantBit(2)
      [] value = "AuthenticationMethod" -> SignificantBit(3)
      [] value = "DiffieHellmanGroup" -> SignificantBit(4)
      [] value = "LifeType" -> SignificantBit(11)
      [] value = "LifeDuration" -> SignificantBit(12)

\* impl From<AttributeType> for U16 (ike.rs)
AttributeType_U16(value) ==
    CASE value = "Encryption" -> SignificantBit(1)
      [] value = "HashType" -> SignificantBit(2)
      [] value = "AuthenticationMethod" -> SignificantBit(3)
      [] value = "DiffieHellmanGroup" -> SignificantBit(4)
      [] value = "LifeType" -> SignificantBit(11)
      [] value = "LifeDuration" -> 12

-----------------------------------------------------------------------------
(* IKEv1: build_transforms *)

\* for auth_method in (1..=5).chain(9..=11)
AuthMethodIter == RangeInclusive(1, 5) \o RangeInclusive(9, 11)

\* for diffie_group in (1..=21).chain(24..=24).chain(28..=34)
DiffieGroupIter == RangeInclusive(1, 21) \o RangeInclusive(24, 24) \o RangeInclusive(28, 34)

\* for hash in 1..=6
HashIter == RangeInclusive(1, 6)

\* for encryption in 1..=8
EncryptionIter == RangeInclusive(1, 8)

Attribute(type, value) ==
    [attribute_type |-> type, attribute_value_or_length |-> value]

\* the Transform pushed by the innermost loop body
NewTransform(auth_method, diffie_group, hash, encryption) ==
    [transform_payload |->
        [next_payload |-> PayloadTypeV1_u8("Transform"),
         reserved |-> 0,
         length |-> 36,
         transform_number |-> 0,
         transform_id |-> 1,
         reserved2 |-> 0],
     encryption_attribute |-> Attribute(AttributeType_U16("Encryption"), encryption),
     hash_attribute |-> Attribute(AttributeType_U16("HashType"), hash),
     diffie_hellman_attribute |->
        Attribute(AttributeType_U16("DiffieHellmanGroup"), diffie_group),
     authentication_method_attribute |->
        Attribute(AttributeType_U16("AuthenticationMethod"), auth_method),
     life_type_attribute |-> Attribute(AttributeType_U16("LifeType"), 1),
     life_duration_attribute |-> Attribute(AttributeType_U16("LifeDuration"), 4),
     life_duration_value |-> 28800]

\* the four nested loops, outermost first: auth_method, diffie_group, hash,
\* encryption; entry k is the k-th push
build_transforms ==
    LET nd == Len(DiffieGroupIter)
        nh == Len(HashIter)
        ne == Len(EncryptionIter)
        total == Len(AuthMethodIter) * nd * nh * ne
    IN  [k \in 1..total |->
            NewTransform(AuthMethodIter[((k - 1) \div (nd * nh * ne)) + 1],
                         DiffieGroupIter[(((k - 1) \div (nh * ne)) % nd) + 1],
                         HashIter[(((k - 1) \div ne) % nh) + 1],
                         EncryptionIter[((k - 1) % ne) + 1])]

-----------------------------------------------------------------------------
(* IKEv1: the packet and its methods *)

\* an IkeV1 as a caller assembles it before any method is called: no
\* transforms attached, the three length fields holding `len` (they are
\* computed later), the reserved fields, the responder SPI, the flags and the
\* message id zero as the field documentation requires
FreshIkeV1(len) ==
    [type |-> "IkeV1",
     header |->
        [initiator_spi |-> 1, responder_spi |-> 0,
         next_payload |-> PayloadTypeV1_u8("SecurityAssociation"),
         version |-> 16, exchange_type |-> 2, flag |-> 0, message_id |-> 0,
         length |-> len],
     security_association_payload |->
        [sa_next_payload |-> 0, reserved |-> 0, sa_length |-> len,
         sa_doi |-> 1, sa_situation |-> 1],
     proposal_payload |->
        [next_payload |-> 0, reserved |-> 0, length |-> len, proposal |-> 1,
         protocol_id |-> 1, spi_size |-> 0, number_of_transforms |-> 0],
     transform |-> <<>>]

\* the result of a method call: how it ended and the packet it leaves
Returned(self) == [outcome |-> "ok", self |-> self]

Panicked(self) == [outcome |-> "panic", self |-> self]

\* (mutation) the number written to `reserved` instead of `transform_number`
NumberTransforms_into_reserved(transforms) ==
    [k \in 1..Len(transforms) |->
        [transforms[k] EXCEPT !.transform_payload.reserved = k - 1]]

\* for i in 0..length_checked { change_transforms[i].transform_number = i }
NumberTransforms(transforms) ==
    [k \in 1..Len(transforms) |->
        [transforms[k] EXCEPT !.transform_payload.transform_number = k - 1]]

\* (mutation) the terminal marker written to the first entry, not the last
set_transforms_marks_first(self, transforms) ==
    LET length == Len(transforms)
    IN  IF length > U8Max THEN Panicked(self)
        ELSE LET counted == [self EXCEPT !.proposal_payload.number_of_transforms = length]
             IN  IF length = 0 THEN Panicked(counted)
                 ELSE Returned([counted EXCEPT !.transform =
                        [NumberTransforms(transforms) EXCEPT
                            ![1].transform_payload.next_payload = 0]])

\* (mutation) an empty list accepted: nothing to mark, the empty vector attached
set_transforms_accepting_empty(self, transforms) ==
    LET length == Len(transforms)
        length_checked == u8_try_from(length)
    IN  IF ~length_checked.ok THEN Panicked(self)
        ELSE LET counted == [self EXCEPT !.proposal_payload.number_of_transforms =
                                            length_checked.value]
                 change_transforms == NumberTransforms(transforms)
             IN  IF length = 0 THEN Returned([counted EXCEPT !.transform = <<>>])
                 ELSE Returned([counted EXCEPT !.transform =
                        [change_transforms EXCEPT
                            ![length].transform_payload.next_payload = 0]])

\* IkeV1::set_transforms.  expect() panics before anything is written;
\* change_transforms[length - 1] panics on an empty list, after
\* number_of_transforms was written.
set_transforms(self, transforms) ==
    LET length == Len(transforms)
        length_checked == u8_try_from(length)
    IN  IF ~length_checked.ok THEN Panicked(self)
        ELSE LET counted == [self EXCEPT !.proposal_payload.number_of_transforms =
                                            length_checked.value]
                 change_transforms == NumberTransforms(transforms)
             IN  IF length = 0 THEN Panicked(counted)
                 ELSE Returned([counted EXCEPT !.transform =
                        [change_transforms EXCEPT
                            ![length].transform_payload.next_payload = 0]])

\* (mutation) the packet length leaves out the 12-byte SA header
calculate_length_without_sa_header(self) ==
    LET proposal_length ==
            WrapU16(8 + self.proposal_payload.number_of_transforms * 36)
    IN  [self EXCEPT !.proposal_payload.length = proposal_length,
                     !.security_association_payload.sa_length =
                            WrapU16(proposal_length + 12),
                     !.header.length = 28 + proposal_length]

\* (mutation) a transform counted as its 8-byte header and five attributes
calculate_length_short_transform(self) ==
    LET proposal_length ==
            WrapU16(8 + self.proposal_payload.number_of_transforms * 28)
    IN  [self EXCEPT !.proposal_payload.length = proposal_length,
                     !.security_association_payload.sa_length =
                            WrapU16(proposal_length + 12),
                     !.header.length = 28 + WrapU16(proposal_length + 12)]

\* (mutation) the proposal length added to the value the field already holds
calculate_length_accumulating(self) ==
    LET proposal_length ==
            WrapU16(self.proposal_payload.length + 8
                    + self.proposal_payload.number_of_transforms * 36)
    IN  [self EXCEPT !.proposal_payload.length = proposal_length,
                     !.security_association_payload.sa_length =
                            WrapU16(proposal_length + 12),
                     !.header.length = 28 + WrapU16(proposal_length + 12)]

\* (mutation) the product taken in the count's own width, u8, before the cast
calculate_length_u8_product(self) ==
    LET proposal_length ==
            WrapU16(8 + ((self.proposal_payload.number_of_transforms * 36)
                         % (U8Max + 1)))
        security_association_length == WrapU16(proposal_length + 12)
        ike_packet_length == 28 + security_association_length
    IN  [self EXCEPT !.proposal_payload.length = proposal_length,
                     !.security_association_payload.sa_length =
                            security_association_length,
                     !.header.length = ike_packet_length]

\* IkeV1::calculate_length
calculate_length(self) ==
    LET proposal_length ==
            WrapU16(8 + self.proposal_payload.number_of_transforms * 36)
        security_association_length == WrapU16(proposal_length + 12)
        ike_packet_length == 28 + security_association_length
    IN  [self EXCEPT !.proposal_payload.length = proposal_length,
                     !.security_association_payload.sa_length =
                            security_association_length,
                     !.header.length = ike_packet_length]

\* IkeV1Header::as_bytes (packed; responder_spi and message_id are native
\* integers, zero in every packet of the model, so their byte order is moot)
IkeV1HeaderBytes(h) ==
    BE64(h.initiator_spi) \o BE64(h.responder_spi)
    \o <<h.next_payload, h.version, h.exchange_type, h.flag>>
    \o BE32(h.message_id) \o BE32(h.length)

\* SecurityAssociationV1::as_bytes
SecurityAssociationV1Bytes(sa) ==
    <<sa.sa_next_payload, sa.reserved>> \o BE16(sa.sa_length)
    \o BE32(sa.sa_doi) \o BE32(sa.sa_situation)

\* ProposalPayload::as_bytes
ProposalPayloadBytes(p) ==
    <<p.next_payload, p.reserved>> \o BE16(p.length)
    \o <<p.proposal, p.protocol_id, p.spi_size, p.number_of_transforms>>

\* Attribute::as_bytes
AttributeBytes(a) == BE16(a.attribute_type) \o BE16(a.attribute_value_or_length)

\* Transform::as_bytes
TransformBytes(t) ==
    <<t.transform_payload.next_payload, t.transform_payload.reserved>>
    \o BE16(t.transform_payload.length)
    \o <<t.transform_payload.transform_number, t.transform_payload.transform_id>>
    \o BE16(t.transform_payload.reserved2)
    \o AttributeBytes(t.encryption_attribute)
    \o AttributeBytes(t.hash_attribute)
    \o AttributeBytes(t.diffie_hellman_attribute)
    \o AttributeBytes(t.authentication_method_attribute)
    \o AttributeBytes(t.life_type_attribute)
    \o AttributeBytes(t.life_duration_attribute)
    \o BE32(t.life_duration_value)

\* <[T]>::as_bytes: the records' bytes (`each`, `size` bytes per record) one
\* after the other
SliceBytes(each, size) ==
    [i \in 1..(size * Len(each)) |->
        each[((i - 1) \div size) + 1][((i - 1) % size) + 1]]

\* self.transform.as_bytes()
TransformSliceBytes(transforms) ==
    SliceBytes([k \in 1..Len(transforms) |-> TransformBytes(transforms[k])], 36)

\* (mutation) the proposal payload pushed before the SA payload
convert_to_bytes_proposal_first(self) ==
    IkeV1HeaderBytes(self.header)
    \o ProposalPayloadBytes(self.proposal_payload)
    \o SecurityAssociationV1Bytes(self.security_association_payload)
    \o TransformSliceBytes(self.transform)

\* IkeV1::convert_to_bytes
convert_to_bytes(self) ==
    IkeV1HeaderBytes(self.header)
    \o SecurityAssociationV1Bytes(self.security_association_payload)
    \o ProposalPayloadBytes(self.proposal_payload)
    \o TransformSliceBytes(self.transform)

-----------------------------------------------------------------------------
(* IKEv1: the lists a caller hands to set_transforms *)

Prefix(s, n) == SubSeq(s, 1, n)

\* a list whose entries carry other next_payload, transform_number and length
\* values than the generator's: a caller may hand over any Transform values
Relabelled(transforms) ==
    [k \in 1..Len(transforms) |->
        [transforms[k] EXCEPT
            !.transform_payload.next_payload = IF k % 2 = 1 THEN 0 ELSE 5,
            !.transform_payload.transform_number = (k + 6) % (U8Max + 1),
            !.transform_payload.length = 0]]

\* generated and relabelled lists of every length 0..MaxSmall, lists of the
\* largest admissible length, a list one entry too long and the whole
\* generated list
TransformLists ==
    {Prefix(build_transforms, n) : n \in 0..MaxSmall}
    \cup {Relabelled(Prefix(build_transforms, n)) : n \in 1..MaxSmall}
    \cup {Prefix(build_transforms, U8Max),
          Relabelled(Prefix(build_transforms, U8Max)),
          Prefix(build_transforms, U8Max + 1),
          build_transforms}

-----------------------------------------------------------------------------
(* IKEv2: code tables used by the generator (src/ikev2.rs) *)

\* impl From<PayloadTypeV2> for u8
PayloadTypeV2_u8(value) ==
    CASE value = "NoNextPayload" -> 0
      [] value = "SecurityAssociation" -> 33
      [] value = "KeyExchange" -> 34
      [] value = "IdentificationInitiator" -> 35
      [] value = "IdentificationResponder" -> 36
      [] value = "Certificate" -> 37
      [] value = "CertificateRequest" -> 38
      [] value = "Authentication" -> 39
      [] value = "Nonce" -> 40
      [] value = "Notify" -> 41
      [] value = "VendorID" -> 43

\* impl From<TransformTypeValues> for u8
TransformTypeValues_u8(value) ==
    CASE value = "EncryptionAlgorithm" -> 1
      [] value = "PseudoRandomFunction" -> 2
      [] value = "IntegrityAlgorithm" -> 3
      [] value = "DiffieHellmanGroup" -> 4
      [] value = "ExtendedSequenceNumbers" -> 5

\* impl From<AttributeType> for U16 (ikev2.rs)
AttributeTypeV2_U16(value) ==
    CASE value = "KeyLength" -> SignificantBit(14)

\* #[repr(u8)] enum ProtocolId: the byte as_bytes writes is the discriminant
ProtocolIdByte(value) ==
    CASE value = "Reserved" -> 0
      [] value = "IKE" -> 1
      [] value = "AuthenticationHeader" -> 2
      [] value = "EncapsulationSecurityPayload" -> 3
      [] value = "FcEspHeader" -> 4
      [] value = "FcCtAuthentication" -> 5

-----------------------------------------------------------------------------
(* IKEv2: build_transforms_v2 *)

\* the TransformV2 pushed by the PRF, integrity and Diffie-Hellman loops;
\* length: Default::default() is 0
NewTransformV2(type, id) ==
    [next_transform |-> 3, reserved |-> 0, length |-> 0,
     transform_type |-> TransformTypeValues_u8(type), reserved2 |-> 0,
     transform_id |-> id]

\* the TransformAttributeV2 pushed by the encryption loop
NewTransformAttributeV2(id, attribute_value) ==
    [next_transform |-> 3, reserved |-> 0, length |-> 0,
     transform_type |-> TransformTypeValues_u8("EncryptionAlgorithm"),
     reserved2 |-> 0, transform_id |-> id,
     attribute |-> [attribute_type |-> AttributeTypeV2_U16("KeyLength"),
                    attribute_value |-> attribute_value]]

\* for encryption_v2 in (1u16..=9).chain(11..=16).chain(18..=35)
EncryptionV2Iter ==
    RangeInclusive(1, 9) \o RangeInclusive(11, 16) \o RangeInclusive(18, 35)

\* for attribute_value in [128, 192, 256]
KeyLengths == <<128, 192, 256>>

\* (mutation) the key lengths pushed for AES-CBC (12) only
EncryptionPushes_cbc_only(encryption_v2) ==
    IF encryption_v2 = 12
    THEN [j \in 1..Len(KeyLengths) |->
            NewTransformAttributeV2(encryption_v2, KeyLengths[j])]
    ELSE <<NewTransformAttributeV2(encryption_v2, 0)>>

\* what one pass of the encryption loop pushes
EncryptionPushes(encryption_v2) ==
    IF encryption_v2 = 12 \/ encryption_v2 = 13
    THEN [j \in 1..Len(KeyLengths) |->
            NewTransformAttributeV2(encryption_v2, KeyLengths[j])]
    ELSE <<NewTransformAttributeV2(encryption_v2, 0)>>

\* the pushes of the passes over iter[from..], in order
RECURSIVE EncryptionLoop(_, _)
EncryptionLoop(iter, from) ==
    IF from > Len(iter) THEN <<>>
    ELSE EncryptionPushes(iter[from]) \o EncryptionLoop(iter, from + 1)

transform_vec_encryption == EncryptionLoop(EncryptionV2Iter, 1)

\* for prf_value in 1u16..=9
transform_vec_prf ==
    [k \in 1..9 |-> NewTransformV2("PseudoRandomFunction", RangeInclusive(1, 9)[k])]

\* for integrity_algorithm in 1u16..=14
transform_vec_integrity_algorithm ==
    [k \in 1..14 |-> NewTransformV2("IntegrityAlgorithm", RangeInclusive(1, 14)[k])]

\* for diffie_group in (1u16..=2).chain(5..=5).chain(14..=34)
DiffieGroupV2Iter ==
    RangeInclusive(1, 2) \o RangeInclusive(5, 5) \o RangeInclusive(14, 34)

transform_vec_diffie_group ==
    [k \in 1..Len(DiffieGroupV2Iter) |->
        NewTransformV2("DiffieHellmanGroup", DiffieGroupV2Iter[k])]

\* IkeV2::build_transforms_v2: the tuple it returns
build_transforms_v2 ==
    <<transform_vec_encryption, transform_vec_prf,
      transform_vec_integrity_algorithm, transform_vec_diffie_group>>

-----------------------------------------------------------------------------
(* IKEv2: the packet and its methods *)

\* an IkeV2 as a caller assembles it before any method is called: nothing
\* attached, the length fields holding `len`
FreshIkeV2(len) ==
    [type |-> "IkeV2",
     header |->
        [initiator_spi |-> 1, responder_spi |-> 0,
         next_payload |-> PayloadTypeV2_u8("SecurityAssociation"),
         version |-> 32, exchange_type |-> 34, flag |-> 8, message_id |-> 0,
         length |-> len],
     sa_payload_v2 |->
        [sa2_next_payload |-> PayloadTypeV2_u8("KeyExchange"),
         critical_bit |-> 0, sa2_length |-> len],
     proposal_v2 |->
        [next_proposal |-> 0, reserved |-> 0, length |-> len,
         proposal_number |-> 1, protocol_id |-> "IKE", spi_size |-> 0,
         number_of_transforms |-> 0],
     encryption_transforms |-> <<>>,
     prf_transform |-> <<>>,
     integrity_algorithm_transform |-> <<>>,
     diffie_transform |-> <<>>,
     key_exchange |->
        [next_payload |-> PayloadTypeV2_u8("Nonce"), reserved |-> 0,
         length |-> len, diffie_hellman_group |-> 2, reserved2 |-> 0],
     key_exchange_data |-> <<>>,
     nonce_payload |->
        [next_payload_ |-> PayloadTypeV2_u8("NoNextPayload"), reserved |-> 0,
         length |-> len],
     nonce_data |-> <<>>]

\* (mutation) the terminal marker written to the first DH entry, not the last
set_transforms_v2_marks_first(self, encryption, prf, integrity_algorithm, diffie_group) ==
    LET full_length ==
            Len(encryption) + Len(prf) + Len(integrity_algorithm) + Len(diffie_group)
    IN  IF full_length > U8Max THEN Panicked(self)
        ELSE LET stored ==
                    [self EXCEPT
                        !.proposal_v2.number_of_transforms = full_length,
                        !.encryption_transforms = encryption,
                        !.prf_transform = prf,
                        !.integrity_algorithm_transform = integrity_algorithm]
             IN  IF Len(diffie_group) = 0 THEN Panicked(stored)
                 ELSE Returned([stored EXCEPT !.diffie_transform =
                        [diffie_group EXCEPT ![1].next_transform = 0]])

\* (mutation) the DH-group entries left out of the count
set_transforms_v2_uncounted_dh(self, encryption, prf, integrity_algorithm, diffie_group) ==
    LET full_length ==
            Len(encryption) + Len(prf) + Len(integrity_algorithm)
        length_checked == u8_try_from(full_length + Len(diffie_group))
    IN  IF ~length_checked.ok THEN Panicked(self)
        ELSE LET stored ==
                    [self EXCEPT
                        !.proposal_v2.number_of_transforms = full_length,
                        !.encryption_transforms = encryption,
                        !.prf_transform = prf,
                        !.integrity_algorithm_transform = integrity_algorithm]
             IN  IF Len(diffie_group) = 0 THEN Panicked(stored)
                 ELSE Returned([stored EXCEPT !.diffie_transform =
                        [diffie_group EXCEPT ![Len(diffie_group)].next_transform =
                            PayloadTypeV2_u8("NoNextPayload")]])

\* IkeV2::set_transforms_v2.  expect() panics before anything is written;
\* change_transform[diffie_group.len() - 1] panics on an empty DH list, after
\* the count and the three other vectors were written.
set_transforms_v2(self, encryption, prf, integrity_algorithm, diffie_group) ==
    LET full_length ==
            Len(encryption) + Len(prf) + Len(integrity_algorithm) + Len(diffie_group)
        length_checked == u8_try_from(full_length)
    IN  IF ~length_checked.ok THEN Panicked(self)
        ELSE LET stored ==
                    [self EXCEPT
                        !.proposal_v2.number_of_transforms = length_checked.value,
                        !.encryption_transforms = encryption,
                        !.prf_transform = prf,
                        !.integrity_algorithm_transform = integrity_algorithm]
             IN  IF Len(diffie_group) = 0 THEN Panicked(stored)
                 ELSE Returned([stored EXCEPT !.diffie_transform =
                        [diffie_group EXCEPT ![Len(diffie_group)].next_transform =
                            PayloadTypeV2_u8("NoNextPayload")]])

\* let prime_len = 1024: private_key.prime_p().num_bytes()
PrimeBytes == 128

\* (0..174).map(|_| random::<u8>())
NonceBytes == 174

\* `size` bytes an external random source may produce, one value per seed
RandomBytes(size, seed) == [i \in 1..size |-> (seed * 83 + i * 151) % 256]

\* IkeV2::generate_key_exchange_data: public_key.to_vec_padded(num_bytes)
generate_key_exchange_data(self, seed) ==
    [self EXCEPT !.key_exchange_data = RandomBytes(PrimeBytes, seed)]

\* IkeV2::generate_nonce_data
generate_nonce_data(self, seed) ==
    [self EXCEPT !.nonce_data = RandomBytes(NonceBytes, seed)]

SumLengths(transforms) ==
    SumSeq([k \in 1..Len(transforms) |-> transforms[k].length])

\* (mutation) a length already present is trusted: only an unset one is written
TransformV2_calculate_length_if_unset(t) ==
    IF t.length = 0 THEN [t EXCEPT !.length = 8] ELSE t

\* TransformV2::calculate_length
TransformV2_calculate_length(t) == [t EXCEPT !.length = 8]

\* (mutation) the key-length attribute left out of the transform's length
TransformAttributeV2_calculate_length_plain(t) == [t EXCEPT !.length = 8]

\* TransformAttributeV2::calculate_length
TransformAttributeV2_calculate_length(t) == [t EXCEPT !.length = 4 + 8]

\* for x in &mut vec { x.calculate_length(); .. } over a Vec<TransformV2>
ResolveTransforms(transforms) ==
    [k \in 1..Len(transforms) |-> TransformV2_calculate_length(transforms[k])]

\* for encr in &mut self.encryption_transforms { encr.calculate_length(); .. }
ResolveAttributeTransforms(transforms) ==
    [k \in 1..Len(transforms) |->
        TransformAttributeV2_calculate_length(transforms[k])]

\* (mutation) the packet length leaves out the nonce payload
calculate_length_v2_without_nonce(self) ==
    LET encr == ResolveAttributeTransforms(self.encryption_transforms)
        prf == ResolveTransforms(self.prf_transform)
        integ_alg == ResolveTransforms(self.integrity_algorithm_transform)
        diffie == ResolveTransforms(self.diffie_transform)
        length == WrapU16(SumLengths(encr) + SumLengths(prf)
                          + SumLengths(integ_alg) + SumLengths(diffie))
        key_exchange_length == WrapU16(8 + WrapU16(Len(self.key_exchange_data)))
    IN  [self EXCEPT !.encryption_transforms = encr,
                     !.prf_transform = prf,
                     !.integrity_algorithm_transform = integ_alg,
                     !.diffie_transform = diffie,
                     !.proposal_v2.length = WrapU16(8 + length),
                     !.sa_payload_v2.sa2_length = WrapU16(12 + length),
                     !.key_exchange.length = key_exchange_length,
                     !.nonce_payload.length =
                        WrapU16(4 + WrapU16(Len(self.nonce_data))),
                     !.header.length =
                        28 + WrapU16(12 + length) + key_exchange_length]

\* (mutation) the key-exchange length counts the data without the 8-byte
\* payload header
calculate_length_v2_bare_key_exchange(self) ==
    LET encr == ResolveAttributeTransforms(self.encryption_transforms)
        prf == ResolveTransforms(self.prf_transform)
        integ_alg == ResolveTransforms(self.integrity_algorithm_transform)
        diffie == ResolveTransforms(self.diffie_transform)
        length == WrapU16(SumLengths(encr) + SumLengths(prf)
                          + SumLengths(integ_alg) + SumLengths(diffie))
        proposal_length == WrapU16(8 + length)
        sa_length == WrapU16(4 + proposal_length)
        key_exchange_length == WrapU16(Len(self.key_exchange_data))
        nonce_length == WrapU16(4 + WrapU16(Len(self.nonce_data)))
    IN  [self EXCEPT !.encryption_transforms = encr,
                     !.prf_transform = prf,
                     !.integrity_algorithm_transform = integ_alg,
                     !.diffie_transform = diffie,
                     !.proposal_v2.length = proposal_length,
                     !.sa_payload_v2.sa2_length = sa_length,
                     !.key_exchange.length = key_exchange_length,
                     !.nonce_payload.length = nonce_length,
                     !.header.length =
                        28 + sa_length + key_exchange_length + nonce_length]

\* IkeV2::calculate_length_v2
calculate_length_v2(self) ==
    LET encr == ResolveAttributeTransforms(self.encryption_transforms)
        prf == ResolveTransforms(self.prf_transform)
        integ_alg == ResolveTransforms(self.integrity_algorithm_transform)
        diffie == ResolveTransforms(self.diffie_transform)
        length == WrapU16(SumLengths(encr) + SumLengths(prf)
                          + SumLengths(integ_alg) + SumLengths(diffie))
        proposal_length == WrapU16(8 + length)
        sa_length == WrapU16(4 + proposal_length)
        key_exchange_length == WrapU16(8 + WrapU16(Len(self.key_exchange_data)))
        nonce_length == WrapU16(4 + WrapU16(Len(self.nonce_data)))
    IN  [self EXCEPT !.encryption_transforms = encr,
                     !.prf_transform = prf,
                     !.integrity_algorithm_transform = integ_alg,
                     !.diffie_transform = diffie,
                     !.proposal_v2.length = proposal_length,
                     !.sa_payload_v2.sa2_length = sa_length,
                     !.key_exchange.length = key_exchange_length,
                     !.nonce_payload.length = nonce_length,
                     !.header.length =
                        28 + sa_length + key_exchange_length + nonce_length]

\* IkeV2Header::as_bytes (message_id is a native u32, zero in the model)
IkeV2HeaderBytes(h) ==
    BE64(h.initiator_spi) \o BE64(h.responder_spi)
    \o <<h.next_payload, h.version, h.exchange_type, h.flag>>
    \o BE32(h.message_id) \o BE32(h.length)

\* SecurityAssociationV2::as_bytes
SecurityAssociationV2Bytes(sa) ==
    <<sa.sa2_next_payload, sa.critical_bit>> \o BE16(sa.sa2_length)

\* Proposal::as_bytes
ProposalBytes(p) ==
    <<p.next_proposal, p.reserved>> \o BE16(p.length)
    \o <<p.proposal_number, ProtocolIdByte(p.protocol_id), p.spi_size,
         p.number_of_transforms>>

\* TransformV2::as_bytes
TransformV2Bytes(t) ==
    <<t.next_transform, t.reserved>> \o BE16(t.length)
    \o <<t.transform_type, t.reserved2>> \o BE16(t.transform_id)

\* TransformAttributeV2::as_bytes
TransformAttributeV2Bytes(t) ==
    TransformV2Bytes(t) \o BE16(t.attribute.attribute_type)
    \o BE16(t.attribute.attribute_value)

\* KeyExchangePayloadV2::as_bytes
KeyExchangePayloadV2Bytes(k) ==
    <<k.next_payload, k.reserved>> \o BE16(k.length)
    \o BE16(k.diffie_hellman_group) \o BE16(k.reserved2)

\* NoncePayloadV2::as_bytes
NoncePayloadV2Bytes(n) == <<n.next_payload_, n.reserved>> \o BE16(n.length)

\* <[TransformV2]>::as_bytes
TransformV2SliceBytes(transforms) ==
    SliceBytes([k \in 1..Len(transforms) |-> TransformV2Bytes(transforms[k])], 8)

\* <[TransformAttributeV2]>::as_bytes
TransformAttributeV2SliceBytes(transforms) ==
    SliceBytes([k \in 1..Len(transforms) |->
                    TransformAttributeV2Bytes(transforms[k])], 12)

\* IkeV2::convert_to_bytes_v2
convert_to_bytes_v2(self) ==
    IkeV2HeaderBytes(self.header)
    \o SecurityAssociationV2Bytes(self.sa_payload_v2)
    \o ProposalBytes(self.proposal_v2)
    \o TransformAttributeV2SliceBytes(self.encryption_transforms)
    \o TransformV2SliceBytes(self.prf_transform)
    \o TransformV2SliceBytes(self.integrity_algorithm_transform)
    \o TransformV2SliceBytes(self.diffie_transform)
    \o KeyExchangePayloadV2Bytes(self.key_exchange)
    \o self.key_exchange_data
    \o NoncePayloadV2Bytes(self.nonce_payload)
    \o self.nonce_data

-----------------------------------------------------------------------------
(* IKEv2: the lists a caller hands to set_transforms_v2 *)

\* `list` repeated up to `n` entries
Cycle(list, n) == [k \in 1..n |-> list[((k - 1) % Len(list)) + 1]]

\* entries carrying other next_transform and length values than the
\* generator's
RelabelledV2(transforms) ==
    [k \in 1..Len(transforms) |->
        [transforms[k] EXCEPT !.next_transform = IF k % 2 = 1 THEN 0 ELSE 5,
                              !.length = 3]]

\* the number of encryption entries that brings the generated PRF, integrity
\* and DH lists to `total` entries in all
EncryptionFill(total) ==
    total - Len(transform_vec_prf) - Len(transform_vec_integrity_algorithm)
          - Len(transform_vec_diffie_group)

\* <<encryption, prf, integrity_algorithm, diffie_group>> arguments: prefixes
\* of the generated lists of every length 0..MaxSmall, relabelled prefixes
\* (without integrity entries), the generated lists, the generated lists with
\* no DH entry, lists of 255 and of 256 entries in all with no category over
\* 255, and a DH list of 256 entries alone
TransformListsV2 ==
    {<<Prefix(transform_vec_encryption, n), Prefix(transform_vec_prf, n),
       Prefix(transform_vec_integrity_algorithm, n),
       Prefix(transform_vec_diffie_group, n)>> : n \in 0..MaxSmall}
    \cup {<<RelabelledV2(Prefix(transform_vec_encryption, n)),
            RelabelledV2(Prefix(transform_vec_prf, n)),
            <<>>,
            RelabelledV2(Prefix(transform_vec_diffie_group, n))>> : n \in 1..MaxSmall}
    \cup {build_transforms_v2,
          <<transform_vec_encryption, transform_vec_prf,
            transform_vec_integrity_algorithm, <<>> >>,
          <<Cycle(transform_vec_encryption, EncryptionFill(U8Max)),
            transform_vec_prf, transform_vec_integrity_algorithm,
            transform_vec_diffie_group>>,
          <<Cycle(transform_vec_encryption, EncryptionFill(U8Max + 1)),
            transform_vec_prf, transform_vec_integrity_algorithm,
            transform_vec_diffie_group>>,
          << <<>>, <<>>, <<>>, Cycle(transform_vec_diffie_group, U8Max + 1)>>}

-----------------------------------------------------------------------------
(* Code tables with both directions, IKEv1 (src/ike.rs) *)

\* Option<T>: Some(x) and None
Some(x) == <<x>>

None == <<>>

\* enum PayloadTypeV1
PayloadTypeV1_variants ==
    {"NoNextPayload", "SecurityAssociation", "Proposal", "Transform",
     "KeyExchange", "Identification", "Certificate", "CertificateRequest",
     "Hash", "Signature", "Nonce", "Notification", "VendorID"}

\* (mutation) the gap at 12 closed: VendorID decoded from 12 as well
PayloadTypeV1_try_from_u8_closing_gap(value) ==
    CASE value = 0 -> Some("NoNextPayload")
      [] value = 1 -> Some("SecurityAssociation")
      [] value = 2 -> Some("Proposal")
      [] value = 3 -> Some("Transform")
      [] value = 4 -> Some("KeyExchange")
      [] value = 5 -> Some("Identification")
      [] value = 6 -> Some("Certificate")
      [] value = 7 -> Some("CertificateRequest")
      [] value = 8 -> Some("Hash")
      [] value = 9 -> Some("Signature")
      [] value = 10 -> Some("Nonce")
      [] value = 11 -> Some("Notification")
      [] value = 12 -> Some("VendorID")
      [] value = 13 -> Some("VendorID")
      [] OTHER -> None

\* PayloadTypeV1::try_from_u8
PayloadTypeV1_try_from_u8(value) ==
    CASE value = 0 -> Some("NoNextPayload")
      [] value = 1 -> Some("SecurityAssociation")
      [] value = 2 -> Some("Proposal")
      [] value = 3 -> Some("Transform")
      [] value = 4 -> Some("KeyExchange")
      [] value = 5 -> Some("Identification")
      [] value = 6 -> Some("Certificate")
      [] value = 7 -> Some("CertificateRequest")
      [] value = 8 -> Some("Hash")
      [] value = 9 -> Some("Signature")
      [] value = 10 -> Some("Nonce")
      [] value = 11 -> Some("Notification")
      [] value = 13 -> Some("VendorID")
      [] OTHER -> None

\* enum ExchangeType
ExchangeType_variants ==
    {"IdentityProtect", "AggressiveExchange", "Informational",
     "QuickMode", "NewGroupMode"}

\* impl From<ExchangeType> for u8
ExchangeType_u8(value) ==
    CASE value = "IdentityProtect" -> 2
      [] value = "AggressiveExchange" -> 4
      [] value = "Informational" -> 5
      [] value = "QuickMode" -> 32
      [] value = "NewGroupMode" -> 33

\* ExchangeType::try_from_u8
ExchangeType_try_from_u8(value) ==
    CASE value = 2 -> Some("IdentityProtect")
      [] value = 4 -> Some("AggressiveExchange")
      [] value = 5 -> Some("Informational")
      [] value = 32 -> Some("QuickMode")
      [] value = 33 -> Some("NewGroupMode")
      [] OTHER -> None

\* enum EncryptionAlgorithmV1
EncryptionAlgorithmV1_variants ==
    {"DES", "IDEA", "Blowfish", "Rc5", "TrippleDES", "Cast", "AesCbc",
     "Camellia"}

\* impl From<EncryptionAlgorithmV1> for U16
EncryptionAlgorithmV1_U16(value) ==
    CASE value = "DES" -> 1
      [] value = "IDEA" -> 2
      [] value = "Blowfish" -> 3
      [] value = "Rc5" -> 4
      [] value = "TrippleDES" -> 5
      [] value = "Cast" -> 6
      [] value = "AesCbc" -> 7
      [] value = "Camellia" -> 8

\* EncryptionAlgorithmV1::try_from_u8
EncryptionAlgorithmV1_try_from_u8(value) ==
    CASE value = 1 -> Some("DES")
      [] value = 2 -> Some("IDEA")
      [] value = 3 -> Some("Blowfish")
      [] value = 4 -> Some("Rc5")
      [] value = 5 -> Some("TrippleDES")
      [] value = 6 -> Some("Cast")
      [] value = 7 -> Some("AesCbc")
      [] value = 8 -> Some("Camellia")
      [] OTHER -> None

\* enum HashType
HashType_variants ==
    {"MD5", "SHA1", "TIGER", "AES128XCDC", "SHA2_256", "SHA2_384",
     "SHA2_512", "AES128CMAC", "STREEBOG512"}

\* impl From<HashType> for U16
HashType_U16(value) ==
    CASE value = "MD5" -> 1
      [] value = "SHA1" -> 2
      [] value = "TIGER" -> 3
      [] value = "AES128XCDC" -> 4
      [] value = "SHA2_256" -> 5
      [] value = "SHA2_384" -> 6
      [] value = "SHA2_512" -> 7
      [] value = "AES128CMAC" -> 8
      [] value = "STREEBOG512" -> 9

\* HashType::try_from_u8
HashType_try_from_u8(value) ==
    CASE value = 1 -> Some("MD5")
      [] value = 2 -> Some("SHA1")
      [] value = 3 -> Some("TIGER")
      [] value = 4 -> Some("AES128XCDC")
      [] value = 5 -> Some("SHA2_256")
      [] value = 6 -> Some("SHA2_384")
      [] value = 7 -> Some("SHA2_512")
      [] value = 8 -> Some("AES128CMAC")
      [] value = 9 -> Some("STREEBOG512")
      [] OTHER -> None

\* enum AuthenticationMethod
AuthenticationMethod_variants ==
    {"PreSharedKey", "DssSignatures", "RsaSignatures",
     "EncryptionWithRsa", "RevisedEncryptionWithRsa"}

\* impl From<AuthenticationMethod> for U16
AuthenticationMethod_U16(value) ==
    CASE value = "PreSharedKey" -> 1
      [] value = "DssSignatures" -> 2
      [] value = "RsaSignatures" -> 3
      [] value = "EncryptionWithRsa" -> 4
      [] value = "RevisedEncryptionWithRsa" -> 5

\* AuthenticationMethod::try_from_u8
AuthenticationMethod_try_from_u8(value) ==
    CASE value = 1 -> Some("PreSharedKey")
      [] value = 2 -> Some("DssSignatures")
      [] value = 3 -> Some("RsaSignatures")
      [] value = 4 -> Some("EncryptionWithRsa")
      [] value = 5 -> Some("RevisedEncryptionWithRsa")
      [] OTHER -> None

\* enum DhGroup
DhGroup_variants ==
    {"MODP768bit", "MODP1024bit", "EC2N155", "EC2N185", "MODP1536bit",
     "MODP2048bit", "MODP3071bit", "MODP4096bit", "MODP6144bit",
     "MODP8192bit", "RandomECPGroup256bit", "RandomECPGroup384bit",
     "RandomECPGroup521bit", "MODP2048With256bitPrimeOrder",
     "BrainpoolP256r1", "BrainpoolP384r1", "BrainpoolP512r1",
     "Curve25519", "Curve448", "GOST3410_2012_256", "GOST3410_2012_512"}

\* impl From<DhGroup> for U16
DhGroup_U16(value) ==
    CASE value = "MODP768bit" -> 1
      [] value = "MODP1024bit" -> 2
      [] value = "EC2N155" -> 3
      [] value = "EC2N185" -> 4
      [] value = "MODP1536bit" -> 5
      [] value = "MODP2048bit" -> 14
      [] value = "MODP3071bit" -> 15
      [] value = "MODP4096bit" -> 16
      [] value = "MODP6144bit" -> 17
      [] value = "MODP8192bit" -> 18
      [] value = "RandomECPGroup256bit" -> 19
      [] value = "RandomECPGroup384bit" -> 20
      [] value = "RandomECPGroup521bit" -> 21
      [] value = "MODP2048With256bitPrimeOrder" -> 24
      [] value = "BrainpoolP256r1" -> 28
      [] value = "BrainpoolP384r1" -> 29
      [] value = "BrainpoolP512r1" -> 30
      [] value = "Curve25519" -> 31
      [] value = "Curve448" -> 32
      [] value = "GOST3410_2012_256" -> 33
      [] value = "GOST3410_2012_512" -> 34

\* DhGroup::try_from_u8
DhGroup_try_from_u8(value) ==
    CASE value = 1 -> Some("MODP768bit")
      [] value = 2 -> Some("MODP1024bit")
      [] value = 3 -> Some("EC2N155")
      [] value = 4 -> Some("EC2N185")
      [] value = 5 -> Some("MODP1536bit")
      [] value = 14 -> Some("MODP2048bit")
      [] value = 15 -> Some("MODP3071bit")
      [] value = 16 -> Some("MODP4096bit")
      [] value = 17 -> Some("MODP6144bit")
      [] value = 18 -> Some("MODP8192bit")
      [] value = 19 -> Some("RandomECPGroup256bit")
      [] value = 20 -> Some("RandomECPGroup384bit")
      [] value = 21 -> Some("RandomECPGroup521bit")
      [] value = 24 -> Some("MODP2048With256bitPrimeOrder")
      [] value = 28 -> Some("BrainpoolP256r1")
      [] value = 29 -> Some("BrainpoolP384r1")
      [] value = 30 -> Some("BrainpoolP512r1")
      [] value = 31 -> Some("Curve25519")
      [] value = 32 -> Some("Curve448")
      [] value = 33 -> Some("GOST3410_2012_256")
      [] value = 34 -> Some("GOST3410_2012_512")
      [] OTHER -> None

\* enum SaSituation
SaSituation_variants ==
    {"IdentityOnly", "Secrecy", "Integrity"}

\* impl From<SaSituation> for U32
SaSituation_U32(value) ==
    CASE value = "IdentityOnly" -> 1
      [] value = "Secrecy" -> 2
      [] value = "Integrity" -> 4

\* SaSituation::try_from_u32
SaSituation_try_from_u32(value) ==
    CASE value = 1 -> Some("IdentityOnly")
      [] value = 2 -> Some("Secrecy")
      [] value = 4 -> Some("Integrity")
      [] OTHER -> None

-----------------------------------------------------------------------------
(* Code tables with both directions, IKEv2 (src/ikev2.rs) *)

\* enum PayloadTypeV2
PayloadTypeV2_variants ==
    {"NoNextPayload", "SecurityAssociation", "KeyExchange",
     "IdentificationInitiator", "IdentificationResponder", "Certificate",
     "CertificateRequest", "Authentication", "Nonce", "Notify", "VendorID"}

\* PayloadTypeV2::try_from_u8
PayloadTypeV2_try_from_u8(value) ==
    CASE value = 0 -> Some("NoNextPayload")
      [] value = 33 -> Some("SecurityAssociation")
      [] value = 34 -> Some("KeyExchange")
      [] value = 35 -> Some("IdentificationInitiator")
      [] value = 36 -> Some("IdentificationResponder")
      [] value = 37 -> Some("Certificate")
      [] value = 38 -> Some("CertificateRequest")
      [] value = 39 -> Some("Authentication")
      [] value = 40 -> Some("Nonce")
      [] value = 41 -> Some("Notify")
      [] value = 43 -> Some("VendorID")
      [] OTHER -> None

\* enum ExchangeTypeV2
ExchangeTypeV2_variants ==
    {"IkeSaInit", "IkeAuth", "CreateChildSa", "Informational"}

\* impl From<ExchangeTypeV2> for u8
ExchangeTypeV2_u8(value) ==
    CASE value = "IkeSaInit" -> 34
      [] value = "IkeAuth" -> 35
      [] value = "CreateChildSa" -> 36
      [] value = "Informational" -> 37

\* ExchangeTypeV2::try_from_u8
ExchangeTypeV2_try_from_u8(value) ==
    CASE value = 34 -> Some("IkeSaInit")
      [] value = 35 -> Some("IkeAuth")
      [] value = 36 -> Some("CreateChildSa")
      [] value = 37 -> Some("Informational")
      [] OTHER -> None

\* enum ProtocolId
ProtocolId_variants ==
    {"Reserved", "IKE", "AuthenticationHeader",
     "EncapsulationSecurityPayload", "FcEspHeader", "FcCtAuthentication"}

\* impl From<ProtocolId> for u8
ProtocolId_u8(value) ==
    CASE value = "Reserved" -> 0
      [] value = "IKE" -> 1
      [] value = "AuthenticationHeader" -> 2
      [] value = "EncapsulationSecurityPayload" -> 3
      [] value = "FcEspHeader" -> 4
      [] value = "FcCtAuthentication" -> 5

\* ProtocolId::try_from_u8
ProtocolId_try_from_u8(value) ==
    CASE value = 0 -> Some("Reserved")
      [] value = 1 -> Some("IKE")
      [] value = 2 -> Some("AuthenticationHeader")
      [] value = 3 -> Some("EncapsulationSecurityPayload")
      [] value = 4 -> Some("FcEspHeader")
      [] value = 5 -> Some("FcCtAuthentication")
      [] OTHER -> None

-----------------------------------------------------------------------------
(* The calls *)

Running == call.outcome # "panic"

\* `repeated`: the call before this one was a call of the same method
Call(op, arg, outcome) ==
    [op |-> op, arg |-> arg, outcome |-> outcome, repeated |-> call.op = op]

\* let transforms = IkeV1::build_transforms();
BuildTransforms ==
    /\ Running /\ packet.type = "IkeV1"
    /\ call' = Call("build_transforms", <<>>, "ok")
    /\ ret' = build_transforms
    /\ UNCHANGED packet

\* packet.set_transforms(&transforms);
SetTransforms ==
    /\ Running /\ packet.type = "IkeV1"
    /\ \E transforms \in TransformLists :
          LET r == set_transforms(packet, transforms)
          IN  /\ packet' = r.self
              /\ call' = Call("set_transforms", transforms, r.outcome)
    /\ ret' = <<>>

\* packet.calculate_length();
CalculateLength ==
    /\ Running /\ packet.type = "IkeV1"
    /\ packet' = calculate_length(packet)
    /\ call' = Call("calculate_length", <<>>, "ok")
    /\ ret' = <<>>

\* let bytes = packet.convert_to_bytes();
ConvertToBytes ==
    /\ Running /\ packet.type = "IkeV1"
    /\ call' = Call("convert_to_bytes", <<>>, "ok")
    /\ ret' = convert_to_bytes(packet)
    /\ UNCHANGED packet

\* let (encryption, prf, integrity, diffie) = IkeV2::build_transforms_v2();
BuildTransformsV2 ==
    /\ Running /\ packet.type = "IkeV2"
    /\ call' = Call("build_transforms_v2", <<>>, "ok")
    /\ ret' = build_transforms_v2
    /\ UNCHANGED packet

\* packet.set_transforms_v2(&encryption, &prf, &integrity, &diffie);
SetTransformsV2 ==
    /\ Running /\ packet.type = "IkeV2"
    /\ \E lists \in TransformListsV2 :
          LET r == set_transforms_v2(packet, lists[1], lists[2], lists[3], lists[4])
          IN  /\ packet' = r.self
              /\ call' = Call("set_transforms_v2", lists, r.outcome)
    /\ ret' = <<>>

\* packet.generate_key_exchange_data(); an unwrap() of a failed OpenSSL call
\* panics before key_exchange_data is written
GenerateKeyExchangeData ==
    /\ Running /\ packet.type = "IkeV2"
    /\ \/ \E seed \in 1..MaxFill :
             /\ packet' = generate_key_exchange_data(packet, seed)
             /\ call' = Call("generate_key_exchange_data", <<>>, "ok")
       \/ /\ call' = Call("generate_key_exchange_data", <<>>, "panic")
          /\ UNCHANGED packet
    /\ ret' = <<>>

\* packet.generate_nonce_data();
GenerateNonceData ==
    /\ Running /\ packet.type = "IkeV2"
    /\ \E seed \in 1..MaxFill :
          packet' = generate_nonce_data(packet, seed)
    /\ call' = Call("generate_nonce_data", <<>>, "ok")
    /\ ret' = <<>>

\* packet.calculate_length_v2();
CalculateLengthV2 ==
    /\ Running /\ packet.type = "IkeV2"
    /\ packet' = calculate_length_v2(packet)
    /\ call' = Call("calculate_length_v2", <<>>, "ok")
    /\ ret' = <<>>

\* let bytes = packet.convert_to_bytes_v2();
ConvertToBytesV2 ==
    /\ Running /\ packet.type = "IkeV2"
    /\ call' = Call("convert_to_bytes_v2", <<>>, "ok")
    /\ ret' = convert_to_bytes_v2(packet)
    /\ UNCHANGED packet

\* values the length fields of a freshly assembled packet may hold
InitialLengths == {0, 65535}

Init ==
    /\ packet \in {FreshIkeV1(len) : len \in InitialLengths}
                \cup {FreshIkeV2(len) : len \in InitialLengths}
    /\ call = [op |-> "new", arg |-> <<>>, outcome |-> "ok", repeated |-> FALSE]
    /\ ret = <<>>

Next ==
    \/ BuildTransforms
    \/ SetTransforms
    \/ CalculateLength
    \/ ConvertToBytes
    \/ BuildTransformsV2
    \/ SetTransformsV2
    \/ GenerateKeyExchangeData
    \/ GenerateNonceData
    \/ CalculateLengthV2
    \/ ConvertToBytesV2

Spec == Init /\ [][Next]_vars

-----------------------------------------------------------------------------
(* The code tables used on their own: a constant encoded, a value decoded *)

\* the tables that have both directions
Tables ==
    {"PayloadTypeV1", "ExchangeType", "EncryptionAlgorithmV1", "HashType",
     "AuthenticationMethod", "DhGroup", "SaSituation",
     "PayloadTypeV2", "ExchangeTypeV2", "ProtocolId"}

\* the named constants of a table
Variants(table) ==
    CASE table = "PayloadTypeV1" -> PayloadTypeV1_variants
      [] table = "ExchangeType" -> ExchangeType_variants
      [] table = "EncryptionAlgorithmV1" -> EncryptionAlgorithmV1_variants
      [] table = "HashType" -> HashType_variants
      [] table = "AuthenticationMethod" -> AuthenticationMethod_variants
      [] table = "DhGroup" -> DhGroup_variants
      [] table = "SaSituation" -> SaSituation_variants
      [] table = "PayloadTypeV2" -> PayloadTypeV2_variants
      [] table = "ExchangeTypeV2" -> ExchangeTypeV2_variants
      [] table = "ProtocolId" -> ProtocolId_variants

\* u8::from(c), U16::from(c), U32::from(c) of a constant of `table`
Encode(table, c) ==
    CASE table = "PayloadTypeV1" -> PayloadTypeV1_u8(c)
      [] table = "ExchangeType" -> ExchangeType_u8(c)
      [] table = "EncryptionAlgorithmV1" -> EncryptionAlgorithmV1_U16(c)
      [] table = "HashType" -> HashType_U16(c)
      [] table = "AuthenticationMethod" -> AuthenticationMethod_U16(c)
      [] table = "DhGroup" -> DhGroup_U16(c)
      [] table = "SaSituation" -> SaSituation_U32(c)
      [] table = "PayloadTypeV2" -> PayloadTypeV2_u8(c)
      [] table = "ExchangeTypeV2" -> ExchangeTypeV2_u8(c)
      [] table = "ProtocolId" -> ProtocolId_u8(c)

\* try_from_u8(value) (try_from_u32 for SaSituation) of `table`
Decode(table, value) ==
    CASE table = "PayloadTypeV1" -> PayloadTypeV1_try_from_u8(value)
      [] table = "ExchangeType" -> ExchangeType_try_from_u8(value)
      [] table = "EncryptionAlgorithmV1" -> EncryptionAlgorithmV1_try_from_u8(value)
      [] table = "HashType" -> HashType_try_from_u8(value)
      [] table = "AuthenticationMethod" -> AuthenticationMethod_try_from_u8(value)
      [] table = "DhGroup" -> DhGroup_try_from_u8(value)
      [] table = "SaSituation" -> SaSituation_try_from_u32(value)
      [] table = "PayloadTypeV2" -> PayloadTypeV2_try_from_u8(value)
      [] table = "ExchangeTypeV2" -> ExchangeTypeV2_try_from_u8(value)
      [] table = "ProtocolId" -> ProtocolId_try_from_u8(value)

\* the values a decoder is given: every u8; for try_from_u32 also values
\* beyond one byte
DecodeInputs(table) ==
    IF table = "SaSituation" THEN 0..U8Max \cup {U8Max + 1, U16Mod - 1, U16Mod}
    ELSE 0..U8Max

\* let value = u8::from(c);  (U16::from, U32::from)
EncodeConstant ==
    /\ call.op = "new"
    /\ \E table \in Tables : \E c \in Variants(table) :
          /\ call' = Call("encode", <<table, c>>, "ok")
          /\ ret' = Encode(table, c)
    /\ UNCHANGED packet

\* let c = T::try_from_u8(value);  a value of any origin
DecodeValue ==
    /\ call.op = "new"
    /\ \E table \in Tables : \E value \in DecodeInputs(table) :
          /\ call' = Call("decode", <<table, value>>, "ok")
          /\ ret' = Decode(table, value)
    /\ UNCHANGED packet

\* let c = T::try_from_u8(u8::from(c));  the value just encoded, decoded
DecodeEncoded ==
    /\ call.op = "encode"
    /\ call' = Call("decode", <<call.arg[1], ret>>, "ok")
    /\ ret' = Decode(call.arg[1], ret)
    /\ UNCHANGED packet

\* no packet is involved in a table lookup; the lookups are pure functions,
\* so a behaviour is one lookup, or an encoding and the decoding of its result
TablesInit ==
    /\ packet = <<>>
    /\ call = [op |-> "new", arg |-> <<>>, outcome |-> "ok", repeated |-> FALSE]
    /\ ret = <<>>

TablesNext ==
    \/ EncodeConstant
    \/ DecodeValue
    \/ DecodeEncoded

TablesSpec == TablesInit /\ [][TablesNext]_vars

-----------------------------------------------------------------------------
(* Helpers of the properties *)

\* the length field of the IKE header in a serialised packet (bytes 25..28)
HeaderLengthField(bytes) == ReadBE32(bytes, 25)

\* bytes the four transform vectors of an IkeV2 take in the buffer
TransformsSizeV2(self) ==
    12 * Len(self.encryption_transforms)
    + 8 * (Len(self.prf_transform) + Len(self.integrity_algorithm_transform)
           + Len(self.diffie_transform))

\* where the key-exchange and the nonce payload start in an IkeV2 buffer
KeyExchangeOffset(self) == 28 + 4 + 8 + TransformsSizeV2(self)

NonceOffset(self) == KeyExchangeOffset(self) + 8 + Len(self.key_exchange_data)

\* the entries of the four lists handed to set_transforms_v2
TotalLen(lists) == Len(lists[1]) + Len(lists[2]) + Len(lists[3]) + Len(lists[4])

NextTransforms(transforms) ==
    [k \in 1..Len(transforms) |-> transforms[k].next_transform]

\* the next_transform markers of the logical chain
\* encryption ++ PRF ++ integrity ++ DH group
ChainMarkers(self) ==
    NextTransforms(self.encryption_transforms) \o NextTransforms(self.prf_transform)
    \o NextTransforms(self.integrity_algorithm_transform)
    \o NextTransforms(self.diffie_transform)

\* the (auth method, DH group, hash, encryption) combination of a v1 transform
Combination(t) ==
    <<t.authentication_method_attribute.attribute_value_or_length,
      t.diffie_hellman_attribute.attribute_value_or_length,
      t.hash_attribute.attribute_value_or_length,
      t.encryption_attribute.attribute_value_or_length>>

IteratedCombinations ==
    SeqRange(AuthMethodIter) \X SeqRange(DiffieGroupIter)
    \X SeqRange(HashIter) \X SeqRange(EncryptionIter)

\* the transforms attached to a packet: the transform vector (v1), the four
\* vectors in chain order (v2)
AttachedTransforms(self) ==
    IF self.type = "IkeV1"
    THEN <<self.transform>>
    ELSE <<self.encryption_transforms, self.prf_transform,
           self.integrity_algorithm_transform, self.diffie_transform>>

\* how many transforms are attached to a packet
AttachedCount(self) ==
    IF self.type = "IkeV1"
    THEN Len(self.transform)
    ELSE Len(self.encryption_transforms) + Len(self.prf_transform)
         + Len(self.integrity_algorithm_transform) + Len(self.diffie_transform)

\* the proposal's number_of_transforms field
NumberOfTransforms(self) ==
    IF self.type = "IkeV1"
    THEN self.proposal_payload.number_of_transforms
    ELSE self.proposal_v2.number_of_transforms

\* a set_transforms / set_transforms_v2 call has returned for this packet: the
\* vector whose last entry the call marks (self.transform, self.diffie_transform)
\* is written by a returning call only, with one entry at least, and it is
\* empty in a freshly assembled packet
Normalised(self) ==
    IF self.type = "IkeV1" THEN self.transform # <<>>
    ELSE self.diffie_transform # <<>>

\* the two normalisation methods
SetTransformsOps == {"set_transforms", "set_transforms_v2"}

\* every length field of a packet
LengthFields(self) ==
    IF self.type = "IkeV1"
    THEN <<[k \in 1..Len(self.transform) |-> self.transform[k].transform_payload.length],
           self.proposal_payload.length,
           self.security_association_payload.sa_length,
           self.header.length>>
    ELSE <<[k \in 1..Len(self.encryption_transforms) |->
                self.encryption_transforms[k].length],
           [k \in 1..Len(self.prf_transform) |-> self.prf_transform[k].length],
           [k \in 1..Len(self.integrity_algorithm_transform) |->
                self.integrity_algorithm_transform[k].length],
           [k \in 1..Len(self.diffie_transform) |-> self.diffie_transform[k].length],
           self.proposal_v2.length, self.sa_payload_v2.sa2_length,
           self.key_exchange.length, self.nonce_payload.length,
           self.header.length>>

-----------------------------------------------------------------------------
(* C1 *)

\* C1 as stated: the v1 scenario succeeds with the whole list build_transforms
\* returns, i.e. set_transforms accepts that list and counts all of it.
C1_WholeListScenario ==
    call.op = "set_transforms" /\ call.arg = build_transforms
        => /\ call.outcome = "ok"
           /\ packet.proposal_payload.number_of_transforms = Len(build_transforms)

\* C1, amended: set_transforms panics on the whole generated list and leaves
\* the packet as it was; once a non-empty list of at most 255 transforms is
\* attached, calculate_length followed by convert_to_bytes yields a buffer
\* whose header length field equals the number of bytes of the buffer.
C1_AttachedScenarioLengthConsistent ==
    [][/\ call'.op = "set_transforms" /\ call'.arg = build_transforms
            => call'.outcome = "panic" /\ packet' = packet
       /\ (/\ call.op = "calculate_length"
           /\ call'.op = "convert_to_bytes"
           /\ packet.transform # <<>>)
            => HeaderLengthField(ret') = Len(ret')]_vars

\* a serialised v1 packet of 255 transforms whose header states its size
C1_Witness ==
    /\ call.op = "convert_to_bytes"
    /\ Len(packet.transform) = U8Max
    /\ Len(ret) = 28 + 12 + 8 + 36 * U8Max
    /\ HeaderLengthField(ret) = Len(ret)

-----------------------------------------------------------------------------
(* C2 *)

\* C2: set_transforms_v2 accepts the four generated lists; with transforms,
\* key-exchange data and nonce data attached, calculate_length_v2 followed by
\* convert_to_bytes_v2 yields a buffer whose header length field equals its
\* number of bytes, whose key-exchange payload length is 8 + the number of
\* key-exchange data bytes and whose nonce payload length is 4 + 174 = 178.
C2_ScenarioV2LengthConsistent ==
    [][/\ call'.op = "set_transforms_v2" /\ call'.arg = build_transforms_v2
            => call'.outcome = "ok"
       /\ (/\ call.op = "calculate_length_v2"
           /\ call'.op = "convert_to_bytes_v2"
           /\ packet.diffie_transform # <<>>
           /\ packet.key_exchange_data # <<>>
           /\ packet.nonce_data # <<>>)
            => /\ HeaderLengthField(ret') = Len(ret')
               /\ ReadBE16(ret', KeyExchangeOffset(packet) + 3)
                    = 8 + Len(packet.key_exchange_data)
               /\ ReadBE16(ret', NonceOffset(packet) + 3) = 4 + 174]_vars

\* a serialised v2 packet carrying the generated lists and both key materials
C2_Witness ==
    /\ call.op = "convert_to_bytes_v2"
    /\ Len(packet.encryption_transforms) = Len(transform_vec_encryption)
    /\ Len(packet.prf_transform) = Len(transform_vec_prf)
    /\ Len(packet.integrity_algorithm_transform) = Len(transform_vec_integrity_algorithm)
    /\ Len(packet.diffie_transform) = Len(transform_vec_diffie_group)
    /\ packet.proposal_v2.number_of_transforms = TotalLen(build_transforms_v2)
    /\ Len(packet.key_exchange_data) = PrimeBytes
    /\ Len(packet.nonce_data) = NonceBytes
    /\ HeaderLengthField(ret) = Len(ret)
    /\ ReadBE16(ret, KeyExchangeOffset(packet) + 3) = 8 + PrimeBytes
    /\ ReadBE16(ret, NonceOffset(packet) + 3) = 178

-----------------------------------------------------------------------------
(* C3 *)

\* C3: the list build_transforms returns has 5,880 entries, as many as there
\* are combinations of the iterated ranges, and holds every combination
\* exactly once.
C3_Count5880EveryCombinationOnce ==
    call.op = "build_transforms"
        => /\ Len(ret) = 5880
           /\ Len(ret) = Cardinality(IteratedCombinations)
           /\ {Combination(ret[k]) : k \in 1..Len(ret)} = IteratedCombinations

-----------------------------------------------------------------------------
(* C4 *)

\* C4: after set_transforms accepted a list of length N, the stored
\* transforms carry transform_number 1, 2, ..., N in list order.
C4_NumberedFromOne ==
    call.op = "set_transforms" /\ call.outcome = "ok"
        => \A k \in 1..Len(packet.transform) :
              packet.transform[k].transform_payload.transform_number = k

-----------------------------------------------------------------------------
(* C5 *)

\* C5 as stated: after set_transforms accepted a list, whatever next_payload
\* its entries carried, the last stored entry has next_payload 0 and every
\* earlier one has next_payload 3.
C5_EarlierEntriesRewritten ==
    call.op = "set_transforms" /\ call.outcome = "ok"
        => LET n == Len(packet.transform)
           IN  /\ packet.transform[n].transform_payload.next_payload = 0
               /\ \A k \in 1..(n - 1) :
                     packet.transform[k].transform_payload.next_payload = 3

\* C5, amended: after set_transforms accepted a list, the last stored entry
\* has next_payload 0 and every earlier stored entry has the next_payload it
\* carried on input; so when the input entries carry 3, as generated, the
\* terminal marker occurs on the last entry only.
C5_OnlyLastEntryRewritten ==
    call.op = "set_transforms" /\ call.outcome = "ok"
        => LET n == Len(packet.transform)
               Given(k) == call.arg[k].transform_payload.next_payload
               Stored(k) == packet.transform[k].transform_payload.next_payload
           IN  /\ n = Len(call.arg)
               /\ Stored(n) = 0
               /\ \A k \in 1..(n - 1) : Stored(k) = Given(k)
               /\ (\A k \in 1..n : Given(k) = 3)
                    => \A k \in 1..(n - 1) : Stored(k) = 3

\* an accepted list with an entry before the last that carried the terminal
\* marker on input, and keeps it
C5_Witness ==
    /\ call.op = "set_transforms" /\ call.outcome = "ok"
    /\ Len(packet.transform) >= 2
    /\ call.arg[1].transform_payload.next_payload = 0
    /\ packet.transform[1].transform_payload.next_payload = 0
    /\ packet.transform[Len(packet.transform)].transform_payload.next_payload = 0

-----------------------------------------------------------------------------
(* C6 *)

\* C6 as stated: after set_transforms_v2 accepted four lists, whatever
\* next_transform their entries carried, the chain encryption ++ PRF ++
\* integrity ++ DH group has the terminal marker 0 on its last entry only.
C6_ChainRewritten ==
    call.op = "set_transforms_v2" /\ call.outcome = "ok"
        => LET chain == ChainMarkers(packet)
           IN  {k \in 1..Len(chain) : chain[k] = 0} = {Len(chain)}

\* C6, amended: after set_transforms_v2 accepted four lists, the last
\* DH-group entry has the terminal marker 0 and every other entry of the four
\* categories is stored as it was given; so when the input entries carry a
\* non-terminal marker, as generated, the marker 0 is on the last DH-group
\* entry only.
C6_OnlyLastDhEntryRewritten ==
    call.op = "set_transforms_v2" /\ call.outcome = "ok"
        => LET dh == packet.diffie_transform
               n == Len(dh)
               chain == ChainMarkers(packet)
           IN  /\ packet.encryption_transforms = call.arg[1]
               /\ packet.prf_transform = call.arg[2]
               /\ packet.integrity_algorithm_transform = call.arg[3]
               /\ n = Len(call.arg[4]) /\ n >= 1
               /\ dh[n] = [call.arg[4][n] EXCEPT !.next_transform = 0]
               /\ \A k \in 1..(n - 1) : dh[k] = call.arg[4][k]
               /\ (\A c \in 1..4 : \A k \in 1..Len(call.arg[c]) :
                        call.arg[c][k].next_transform # 0)
                    => {k \in 1..Len(chain) : chain[k] = 0} = {Len(chain)}

\* accepted lists whose first encryption entry carried the terminal marker on
\* input, and keeps it
C6_Witness ==
    /\ call.op = "set_transforms_v2" /\ call.outcome = "ok"
    /\ packet.encryption_transforms # <<>>
    /\ call.arg[1][1].next_transform = 0
    /\ packet.encryption_transforms[1].next_transform = 0
    /\ packet.diffie_transform[Len(packet.diffie_transform)].next_transform = 0

-----------------------------------------------------------------------------
(* C7 *)

\* C7: set_transforms panics on every list of more than 255 entries and
\* set_transforms_v2 panics whenever the four lists hold more than 255
\* entries in all; a call that succeeds stores the true count, never a count
\* truncated to one byte.
C7_TooManyTransformsPanics ==
    /\ call.op = "set_transforms" /\ Len(call.arg) > U8Max
            => call.outcome = "panic"
    /\ call.op = "set_transforms_v2" /\ TotalLen(call.arg) > U8Max
            => call.outcome = "panic"
    /\ call.op = "set_transforms" /\ call.outcome = "ok"
            => packet.proposal_payload.number_of_transforms = Len(call.arg)
    /\ call.op = "set_transforms_v2" /\ call.outcome = "ok"
            => packet.proposal_v2.number_of_transforms = TotalLen(call.arg)

\* set_transforms_v2 panicking on 256 entries in all, no category over 255
C7_Witness ==
    /\ call.op = "set_transforms_v2" /\ call.outcome = "panic"
    /\ \A c \in 1..4 : Len(call.arg[c]) <= U8Max /\ Len(call.arg[c]) > 0
    /\ TotalLen(call.arg) = U8Max + 1

-----------------------------------------------------------------------------
(* C8 *)

\* C8: after calculate_length on a packet holding n attached transforms,
\* proposal length = 8 + 36 n, SA length = proposal length + 12 and header
\* packet length = 28 + SA length.
C8_LengthsV1 ==
    call.op = "calculate_length"
        => LET n == Len(packet.transform)
           IN  /\ n <= U8Max
               /\ packet.proposal_payload.length = 8 + 36 * n
               /\ packet.security_association_payload.sa_length
                    = packet.proposal_payload.length + 12
               /\ packet.header.length
                    = 28 + packet.security_association_payload.sa_length

\* lengths resolved for a packet of 255 transforms
C8_Witness ==
    /\ call.op = "calculate_length"
    /\ Len(packet.transform) = U8Max
    /\ packet.proposal_payload.length = 9188
    /\ packet.header.length = 9228

-----------------------------------------------------------------------------
(* C9 *)

\* C9: after calculate_length_v2 every encryption transform has length 12 and
\* every PRF, integrity and DH-group transform length 8; proposal length = 8 +
\* the sum of the transform lengths; SA length = 4 + proposal length;
\* key-exchange length = 8 + |key_exchange_data|; nonce length = 4 +
\* |nonce_data|; header length = 28 + SA + key-exchange + nonce length.
C9_LengthsV2 ==
    call.op = "calculate_length_v2"
        => /\ \A k \in 1..Len(packet.encryption_transforms) :
                 packet.encryption_transforms[k].length = 12
           /\ \A k \in 1..Len(packet.prf_transform) :
                 packet.prf_transform[k].length = 8
           /\ \A k \in 1..Len(packet.integrity_algorithm_transform) :
                 packet.integrity_algorithm_transform[k].length = 8
           /\ \A k \in 1..Len(packet.diffie_transform) :
                 packet.diffie_transform[k].length = 8
           /\ packet.proposal_v2.length
                = 8 + SumLengths(packet.encryption_transforms)
                    + SumLengths(packet.prf_transform)
                    + SumLengths(packet.integrity_algorithm_transform)
                    + SumLengths(packet.diffie_transform)
           /\ packet.sa_payload_v2.sa2_length = 4 + packet.proposal_v2.length
           /\ packet.key_exchange.length = 8 + Len(packet.key_exchange_data)
           /\ packet.nonce_payload.length = 4 + Len(packet.nonce_data)
           /\ packet.header.length
                = 28 + packet.sa_payload_v2.sa2_length
                     + packet.key_exchange.length + packet.nonce_payload.length

\* lengths resolved for a v2 packet with all four categories, relabelled on
\* input or not, and both key materials attached
C9_Witness ==
    /\ call.op = "calculate_length_v2"
    /\ packet.encryption_transforms # <<>>
    /\ packet.prf_transform # <<>>
    /\ packet.integrity_algorithm_transform # <<>>
    /\ packet.diffie_transform # <<>>
    /\ packet.key_exchange_data # <<>>
    /\ packet.nonce_data # <<>>
    /\ packet.header.length
         = 28 + (4 + 8 + TransformsSizeV2(packet)) + (8 + PrimeBytes) + (4 + NonceBytes)

-----------------------------------------------------------------------------
(* C10 *)

\* C10: a call of calculate_length (calculate_length_v2) right after a call
\* of calculate_length (calculate_length_v2) leaves every length field
\* (transform, proposal, SA, key-exchange, nonce, header) as the first call
\* left it.
C10_LengthResolutionIdempotent ==
    [][(/\ call.op \in {"calculate_length", "calculate_length_v2"}
        /\ call'.op = call.op)
        => LengthFields(packet') = LengthFields(packet)]_vars

\* a second calculate_length_v2 in a row on a packet with content attached
C10_Witness ==
    /\ call.op = "calculate_length_v2" /\ call.repeated
    /\ packet.encryption_transforms # <<>>
    /\ packet.key_exchange_data # <<>>
    /\ packet.nonce_data # <<>>

-----------------------------------------------------------------------------
(* C11 *)

\* the entries of a v2 encryption list that carry cipher identifier `id`
EntriesOf(encryption, id) ==
    {k \in 1..Len(encryption) : encryption[k].transform_id = id}

-----------------------------------------------------------------------------
(* C12 *)

\* the DH group identifier a generated v1 transform carries
DhGroupOf(t) == t.diffie_hellman_attribute.attribute_value_or_length

\* C12: no transform build_transforms returns, and no DH-group transform
\* build_transforms_v2 returns, carries a DH group identifier of
\* {22, 23, 25, 26, 27}.
C12_GapGroupsNeverEmitted ==
    /\ call.op = "build_transforms"
        => \A k \in 1..Len(ret) : DhGroupOf(ret[k]) \notin {22, 23, 25, 26, 27}
    /\ call.op = "build_transforms_v2"
        => \A k \in 1..Len(ret[4]) :
              ret[4][k].transform_id \notin {22, 23, 25, 26, 27}

-----------------------------------------------------------------------------
(* C13 *)

\* C13: per attribute, the set of values build_transforms emits equals the set
\* of wire values of the attribute's code table: authentication method and
\* AuthenticationMethod, DH group and DhGroup, hash and HashType, encryption
\* and EncryptionAlgorithmV1.
C13_GeneratorMatchesTables ==
    call.op = "build_transforms"
        => /\ {ret[k].authentication_method_attribute.attribute_value_or_length :
                    k \in 1..Len(ret)}
                = {AuthenticationMethod_U16(c) : c \in AuthenticationMethod_variants}
           /\ {DhGroupOf(ret[k]) : k \in 1..Len(ret)}
                = {DhGroup_U16(c) : c \in DhGroup_variants}
           /\ {ret[k].hash_attribute.attribute_value_or_length : k \in 1..Len(ret)}
                = {HashType_U16(c) : c \in HashType_variants}
           /\ {ret[k].encryption_attribute.attribute_value_or_length :
                    k \in 1..Len(ret)}
                = {EncryptionAlgorithmV1_U16(c) : c \in EncryptionAlgorithmV1_variants}

-----------------------------------------------------------------------------
(* C14 *)

\* the places (1-based) of the bytes of the reserved fields in a serialised
\* IkeV1: SA reserved, proposal reserved and, per transform, reserved and the
\* two bytes of reserved2
ReservedBytesV1(self) ==
    {28 + 2, 40 + 2}
    \cup UNION {{48 + 36 * (k - 1) + 2, 48 + 36 * (k - 1) + 7, 48 + 36 * (k - 1) + 8} :
                    k \in 1..Len(self.transform)}

\* the same for a serialised IkeV2: the second byte of the SA header, proposal
\* reserved, reserved and reserved2 of every transform, key-exchange reserved
\* and reserved2, nonce reserved
ReservedBytesV2(self) ==
    LET encryption_size == 12 * Len(self.encryption_transforms)
        plain == Len(self.prf_transform) + Len(self.integrity_algorithm_transform)
                 + Len(self.diffie_transform)
    IN  {28 + 2, 32 + 2}
        \cup UNION {{40 + 12 * (k - 1) + 2, 40 + 12 * (k - 1) + 6} :
                        k \in 1..Len(self.encryption_transforms)}
        \cup UNION {{40 + encryption_size + 8 * (k - 1) + 2,
                     40 + encryption_size + 8 * (k - 1) + 6} : k \in 1..plain}
        \cup {KeyExchangeOffset(self) + 2, KeyExchangeOffset(self) + 7,
              KeyExchangeOffset(self) + 8, NonceOffset(self) + 2}

-----------------------------------------------------------------------------
(* C15 *)

\* bit 15 (0x8000) of a 16-bit value is set
Bit15(x) == (x \div 32768) % 2 = 1

\* C15: the v1 attribute types Encryption, HashType, AuthenticationMethod,
\* DiffieHellmanGroup and LifeType and the v2 attribute type KeyLength encode
\* with bit 15 set; v1 LifeDuration encodes as 12, bit 15 clear; so it is in
\* every transform the generators return, where the v1 life-duration
\* attribute is followed by the length 4 and the 32-bit value 28800.
C15_SignificantBit ==
    /\ \A type \in {"Encryption", "HashType", "AuthenticationMethod",
                    "DiffieHellmanGroup", "LifeType"} :
          Bit15(AttributeType_U16(type))
    /\ AttributeType_U16("LifeDuration") = 12 /\ ~Bit15(AttributeType_U16("LifeDuration"))
    /\ Bit15(AttributeTypeV2_U16("KeyLength"))
    /\ call.op = "build_transforms"
        => \A k \in 1..Len(ret) :
              /\ Bit15(ret[k].encryption_attribute.attribute_type)
              /\ Bit15(ret[k].hash_attribute.attribute_type)
              /\ Bit15(ret[k].authentication_method_attribute.attribute_type)
              /\ Bit15(ret[k].diffie_hellman_attribute.attribute_type)
              /\ Bit15(ret[k].life_type_attribute.attribute_type)
              /\ ret[k].life_duration_attribute.attribute_type = 12
              /\ ret[k].life_duration_attribute.attribute_value_or_length = 4
              /\ ret[k].life_duration_value = 28800
    /\ call.op = "build_transforms_v2"
        => \A k \in 1..Len(ret[1]) : Bit15(ret[1][k].attribute.attribute_type)

\* the generated v1 list, its last transform carrying the six attribute types
C15_Witness ==
    /\ call.op = "build_transforms"
    /\ Len(ret) > 0
    /\ ret[Len(ret)].encryption_attribute.attribute_type = 32769
    /\ ret[Len(ret)].life_type_attribute.attribute_type = 32779
    /\ ret[Len(ret)].life_duration_attribute.attribute_type = 12
    /\ ret[Len(ret)].life_duration_value = 28800

-----------------------------------------------------------------------------
(* C16 *)

\* C16: for every table with both directions, decoding the encoding of a
\* named constant returns that constant, and decoding a value that is the
\* encoding of no named constant returns None.
C16_DecodeInvertsEncode ==
    [][/\ (call.op = "encode" /\ call'.op = "decode" /\ call'.arg = <<call.arg[1], ret>>)
            => ret' = Some(call.arg[2])
       /\ call'.op = "decode"
            => LET table == call'.arg[1]
                   named == {c \in Variants(table) : Encode(table, c) = call'.arg[2]}
               IN  IF named = {} THEN ret' = None
                   ELSE \A c \in named : ret' = Some(c)]_vars

\* the value 12, between Notification (11) and VendorID (13), decoded as a
\* v1 payload type: unrecognised
C16_Witness ==
    /\ call.op = "decode"
    /\ call.arg = <<"PayloadTypeV1", 12>>
    /\ ret = None

-----------------------------------------------------------------------------
(* C17 *)

\* the length fields of a serialised IkeV1 state the sizes of what `self`
\* holds: header length = bytes of the buffer, SA length = 12 + proposal
\* length, proposal length = 8 + 36 per attached transform
BufferConsistentV1(self, bytes) ==
    /\ HeaderLengthField(bytes) = Len(bytes)
    /\ ReadBE16(bytes, 28 + 3) = 12 + 8 + 36 * Len(self.transform)
    /\ ReadBE16(bytes, 40 + 3) = 8 + 36 * Len(self.transform)

\* the same for a serialised IkeV2: header, SA, proposal, key-exchange and
\* nonce length
BufferConsistentV2(self, bytes) ==
    /\ HeaderLengthField(bytes) = Len(bytes)
    /\ ReadBE16(bytes, 28 + 3) = 4 + 8 + TransformsSizeV2(self)
    /\ ReadBE16(bytes, 32 + 3) = 8 + TransformsSizeV2(self)
    /\ ReadBE16(bytes, KeyExchangeOffset(self) + 3) = 8 + Len(self.key_exchange_data)
    /\ ReadBE16(bytes, NonceOffset(self) + 3) = 4 + Len(self.nonce_data)

\* C17 as stated: whatever the order of the calls before it, every buffer
\* convert_to_bytes / convert_to_bytes_v2 returns has a header length field
\* equal to its number of bytes and payload length fields equal to the sizes
\* of the content attached.
C17_EveryInterleavingConsistent ==
    /\ call.op = "convert_to_bytes" => BufferConsistentV1(packet, ret)
    /\ call.op = "convert_to_bytes_v2" => BufferConsistentV2(packet, ret)

\* C17, amended: the serialisers write the length fields as they find them;
\* a buffer serialised right after calculate_length / calculate_length_v2,
\* whatever content is attached by then, has a header length field equal to
\* its number of bytes and SA, proposal, key-exchange and nonce length fields
\* equal to the sizes of the content attached.
C17_ResolvedThenSerialisedConsistent ==
    [][/\ (call.op = "calculate_length" /\ call'.op = "convert_to_bytes")
            => BufferConsistentV1(packet', ret')
       /\ (call.op = "calculate_length_v2" /\ call'.op = "convert_to_bytes_v2")
            => BufferConsistentV2(packet', ret')]_vars

\* a consistent v2 buffer of a packet with transforms and a nonce attached
\* but no key-exchange data
C17_Witness ==
    /\ call.op = "convert_to_bytes_v2"
    /\ packet.diffie_transform # <<>>
    /\ packet.encryption_transforms # <<>>
    /\ packet.nonce_data # <<>>
    /\ packet.key_exchange_data = <<>>
    /\ BufferConsistentV2(packet, ret)

-----------------------------------------------------------------------------
(* C18 *)

\* C18 as stated: after calculate_length / calculate_length_v2 every length
\* field of the packet, each transform's own length field included, holds
\* the value computed from the content: 36 per v1 transform, 12 per v2
\* encryption transform, 8 per other v2 transform.
C18_EveryLengthFieldRecomputed ==
    /\ call.op = "calculate_length"
        => /\ \A k \in 1..Len(packet.transform) :
                 packet.transform[k].transform_payload.length = 36
           /\ packet.proposal_payload.length = 8 + 36 * Len(packet.transform)
           /\ packet.security_association_payload.sa_length
                = 12 + 8 + 36 * Len(packet.transform)
           /\ packet.header.length = 28 + 12 + 8 + 36 * Len(packet.transform)
    /\ call.op = "calculate_length_v2"
        => /\ \A k \in 1..Len(packet.encryption_transforms) :
                 packet.encryption_transforms[k].length = 12
           /\ \A k \in 1..Len(packet.diffie_transform) :
                 packet.diffie_transform[k].length = 8
           /\ packet.proposal_v2.length = 8 + TransformsSizeV2(packet)

\* C18, amended: calculate_length writes the proposal, SA and header length
\* fields from the number of attached transforms, whatever they held before,
\* and leaves every transform, its own length field included, as it was
\* attached; calculate_length_v2 writes every length field, each transform's
\* own included (12 per encryption transform, 8 per other transform),
\* whatever it held before.
C18_LengthsFromContent ==
    [][/\ call'.op = "calculate_length"
            => LET n == Len(packet.transform)
               IN  /\ packet'.transform = packet.transform
                   /\ packet'.proposal_payload.length = 8 + 36 * n
                   /\ packet'.security_association_payload.sa_length = 12 + 8 + 36 * n
                   /\ packet'.header.length = 28 + 12 + 8 + 36 * n
       /\ call'.op = "calculate_length_v2"
            => LET size == TransformsSizeV2(packet)
                   ke == 8 + Len(packet.key_exchange_data)
                   nonce == 4 + Len(packet.nonce_data)
               IN  /\ LengthFields(packet')
                        = <<[k \in 1..Len(packet.encryption_transforms) |-> 12],
                            [k \in 1..Len(packet.prf_transform) |-> 8],
                            [k \in 1..Len(packet.integrity_algorithm_transform) |-> 8],
                            [k \in 1..Len(packet.diffie_transform) |-> 8],
                            8 + size, 4 + 8 + size, ke, nonce,
                            28 + 4 + 8 + size + ke + nonce>>
                   /\ packet'.key_exchange_data = packet.key_exchange_data
                   /\ packet'.nonce_data = packet.nonce_data]_vars

\* lengths resolved for a v1 packet holding a transform attached with length
\* field 0, which it keeps
C18_Witness ==
    /\ call.op = "calculate_length"
    /\ Len(packet.transform) >= 1
    /\ packet.transform[1].transform_payload.length = 0
    /\ packet.proposal_payload.length = 8 + 36 * Len(packet.transform)

-----------------------------------------------------------------------------
(* C19 *)

\* the fields of the records read back from a buffer, `o` bytes into it
\* (network byte order; the SPIs and the message id of the model fit the low
\* four bytes)
ReadHeader(b) ==
    [initiator_spi |-> ReadBE32(b, 5), responder_spi |-> ReadBE32(b, 13),
     next_payload |-> b[17], version |-> b[18], exchange_type |-> b[19],
     flag |-> b[20], message_id |-> ReadBE32(b, 21), length |-> ReadBE32(b, 25)]

ReadAttribute(b, o) == Attribute(ReadBE16(b, o + 1), ReadBE16(b, o + 3))

ReadTransform(b, o) ==
    [transform_payload |->
        [next_payload |-> b[o + 1], reserved |-> b[o + 2],
         length |-> ReadBE16(b, o + 3), transform_number |-> b[o + 5],
         transform_id |-> b[o + 6], reserved2 |-> ReadBE16(b, o + 7)],
     encryption_attribute |-> ReadAttribute(b, o + 8),
     hash_attribute |-> ReadAttribute(b, o + 12),
     diffie_hellman_attribute |-> ReadAttribute(b, o + 16),
     authentication_method_attribute |-> ReadAttribute(b, o + 20),
     life_type_attribute |-> ReadAttribute(b, o + 24),
     life_duration_attribute |-> ReadAttribute(b, o + 28),
     life_duration_value |-> ReadBE32(b, o + 33)]

ReadTransformV2(b, o) ==
    [next_transform |-> b[o + 1], reserved |-> b[o + 2],
     length |-> ReadBE16(b, o + 3), transform_type |-> b[o + 5],
     reserved2 |-> b[o + 6], transform_id |-> ReadBE16(b, o + 7)]

ReadTransformAttributeV2(b, o) ==
    [next_transform |-> b[o + 1], reserved |-> b[o + 2],
     length |-> ReadBE16(b, o + 3), transform_type |-> b[o + 5],
     reserved2 |-> b[o + 6], transform_id |-> ReadBE16(b, o + 7),
     attribute |-> [attribute_type |-> ReadBE16(b, o + 9),
                    attribute_value |-> ReadBE16(b, o + 11)]]

\* a buffer holding header (28 bytes), SA (12), proposal (8) and the
\* transforms (36 each, in list order) of `self`, and nothing else
LayoutV1(self, b) ==
    /\ Len(b) = 28 + 12 + 8 + 36 * Len(self.transform)
    /\ ReadHeader(b) = self.header
    /\ [sa_next_payload |-> b[29], reserved |-> b[30], sa_length |-> ReadBE16(b, 31),
        sa_doi |-> ReadBE32(b, 33), sa_situation |-> ReadBE32(b, 37)]
         = self.security_association_payload
    /\ [next_payload |-> b[41], reserved |-> b[42], length |-> ReadBE16(b, 43),
        proposal |-> b[45], protocol_id |-> b[46], spi_size |-> b[47],
        number_of_transforms |-> b[48]]
         = self.proposal_payload
    /\ \A k \in 1..Len(self.transform) :
          ReadTransform(b, 48 + 36 * (k - 1)) = self.transform[k]


\* a buffer holding header (28), SA (4), proposal (8), the encryption
\* transforms (12 each), the PRF, integrity and DH-group transforms (8 each),
\* the key-exchange header (8) and data, the nonce header (4) and data of
\* `self`, in this order, and nothing else
LayoutV2(self, b) ==
    LET e == Len(self.encryption_transforms)
        p == Len(self.prf_transform)
        i == Len(self.integrity_algorithm_transform)
        d == Len(self.diffie_transform)
        prf_at == 40 + 12 * e
        integrity_at == prf_at + 8 * p
        diffie_at == integrity_at + 8 * i
        ke_at == diffie_at + 8 * d
        nonce_at == ke_at + 8 + Len(self.key_exchange_data)
    IN  /\ Len(b) = nonce_at + 4 + Len(self.nonce_data)
        /\ ReadHeader(b) = self.header
        /\ [sa2_next_payload |-> b[29], critical_bit |-> b[30],
            sa2_length |-> ReadBE16(b, 31)] = self.sa_payload_v2
        /\ [next_proposal |-> b[33], reserved |-> b[34], length |-> ReadBE16(b, 35),
            proposal_number |-> b[37], protocol_id |-> b[38], spi_size |-> b[39],
            number_of_transforms |-> b[40]]
             = [self.proposal_v2 EXCEPT
                    !.protocol_id = ProtocolIdByte(self.proposal_v2.protocol_id)]
        /\ \A k \in 1..e :
              ReadTransformAttributeV2(b, 40 + 12 * (k - 1))
                = self.encryption_transforms[k]
        /\ \A k \in 1..p :
              ReadTransformV2(b, prf_at + 8 * (k - 1)) = self.prf_transform[k]
        /\ \A k \in 1..i :
              ReadTransformV2(b, integrity_at + 8 * (k - 1))
                = self.integrity_algorithm_transform[k]
        /\ \A k \in 1..d :
              ReadTransformV2(b, diffie_at + 8 * (k - 1)) = self.diffie_transform[k]
        /\ [next_payload |-> b[ke_at + 1], reserved |-> b[ke_at + 2],
            length |-> ReadBE16(b, ke_at + 3),
            diffie_hellman_group |-> ReadBE16(b, ke_at + 5),
            reserved2 |-> ReadBE16(b, ke_at + 7)] = self.key_exchange
        /\ SubSeq(b, ke_at + 9, nonce_at) = self.key_exchange_data
        /\ [next_payload_ |-> b[nonce_at + 1], reserved |-> b[nonce_at + 2],
            length |-> ReadBE16(b, nonce_at + 3)] = self.nonce_payload
        /\ SubSeq(b, nonce_at + 5, Len(b)) = self.nonce_data

\* C19: convert_to_bytes returns header (28 bytes) ++ SA (12) ++ proposal (8)
\* ++ transforms (36 each, in list order); convert_to_bytes_v2 returns header
\* (28) ++ SA (4) ++ proposal (8) ++ encryption transforms (12 each) ++ PRF ++
\* integrity ++ DH-group transforms (8 each) ++ key-exchange header (8) ++
\* key-exchange data ++ nonce header (4) ++ nonce data; the buffer has no
\* other byte, and serialising leaves the packet as it was.
C19_SerialisedInProtocolOrder ==
    [][/\ call'.op = "convert_to_bytes"
            => packet' = packet /\ LayoutV1(packet, ret')
       /\ call'.op = "convert_to_bytes_v2"
            => packet' = packet /\ LayoutV2(packet, ret')]_vars

\* a serialised v1 packet of two transforms: 120 bytes, the second transform
\* (number 1, last of the chain) at byte 85
C19_Witness ==
    /\ call.op = "convert_to_bytes"
    /\ Len(packet.transform) = 2
    /\ Len(ret) = 28 + 12 + 8 + 36 + 36
    /\ ret[84 + 1] = 0
    /\ ret[84 + 5] = 1

-----------------------------------------------------------------------------
(* C20 *)

\* C20: for every transform count 0..255 the 16-bit sums of the length
\* resolvers stay below 2^16: 8 + 36 * count and the SA length derived from
\* it (v1), 8 + the per-transform lengths (at most 12 each) and the SA length
\* 4 above it (v2); so every length field holds the exact sum, not the sum
\* modulo 65536, and the 32-bit packet length does not wrap either.
C20_NoLengthOverflow ==
    /\ call.op = "calculate_length"
        => LET n == packet.proposal_payload.number_of_transforms
           IN  /\ n \in 0..U8Max
               /\ packet.proposal_payload.length = 8 + 36 * n
               /\ packet.security_association_payload.sa_length = 8 + 36 * n + 12
               /\ packet.security_association_payload.sa_length < U16Mod
               /\ packet.header.length = 28 + 8 + 36 * n + 12
               /\ \A count \in 0..U8Max :
                     LET counted == [packet EXCEPT
                                        !.proposal_payload.number_of_transforms = count]
                         resolved == calculate_length(counted)
                     IN  /\ resolved.proposal_payload.length = 8 + 36 * count
                         /\ resolved.security_association_payload.sa_length
                              = 8 + 36 * count + 12
                         /\ resolved.header.length = 28 + 8 + 36 * count + 12
                         /\ resolved.header.length < U16Mod
    /\ call.op = "calculate_length_v2"
        => LET size == TransformsSizeV2(packet)
               ke == 8 + Len(packet.key_exchange_data)
               nonce == 4 + Len(packet.nonce_data)
           IN  /\ packet.proposal_v2.number_of_transforms \in 0..U8Max
               /\ size <= 12 * U8Max
               /\ \A encryption \in 0..U8Max :
                     8 + 12 * encryption + 8 * (U8Max - encryption) + 4 < U16Mod
               /\ packet.proposal_v2.length = 8 + size
               /\ packet.sa_payload_v2.sa2_length = 4 + 8 + size
               /\ packet.key_exchange.length = ke /\ ke < U16Mod
               /\ packet.nonce_payload.length = nonce /\ nonce < U16Mod
               /\ packet.header.length = 28 + 4 + 8 + size + ke + nonce
               /\ packet.header.length < 4 * U16Mod

\* lengths resolved for a v2 packet of 255 transforms with both key materials
C20_Witness ==
    /\ call.op = "calculate_length_v2"
    /\ packet.proposal_v2.number_of_transforms = U8Max
    /\ Len(packet.key_exchange_data) = PrimeBytes
    /\ Len(packet.nonce_data) = NonceBytes
    /\ packet.proposal_v2.length = 8 + TransformsSizeV2(packet)
    /\ packet.proposal_v2.length > 8 + 8 * U8Max

-----------------------------------------------------------------------------
(* C21 *)

\* C21: in every state reached by calls that all returned, once a
\* set_transforms / set_transforms_v2 call has returned, the proposal's
\* number_of_transforms equals the number of transforms attached: the length
\* of the transform vector (v1), the sum of the lengths of the encryption,
\* PRF, integrity and DH-group vectors (v2).
C21_CountMatchesAttached ==
    (Running /\ Normalised(packet))
        => NumberOfTransforms(packet) = AttachedCount(packet)

\* a v2 packet normalised with 255 transforms in four non-empty vectors, then
\* taken through another call that returned
C21_Witness ==
    /\ packet.type = "IkeV2"
    /\ Running
    /\ call.op = "calculate_length_v2"
    /\ Normalised(packet)
    /\ \A k \in 1..4 : AttachedTransforms(packet)[k] # <<>>
    /\ AttachedCount(packet) = U8Max
    /\ NumberOfTransforms(packet) = U8Max

\* the two readings of "a normalisation has returned" agree: a returning
\* set_transforms / set_transforms_v2 leaves the packet normalised, and no
\* other step changes whether it is
NormalisedTracksReturns ==
    [][/\ (call'.op \in SetTransformsOps /\ call'.outcome = "ok")
            => Normalised(packet')
       /\ (call'.op \notin SetTransformsOps \/ call'.outcome = "panic")
            => (Normalised(packet') <=> Normalised(packet))
       /\ Normalised(packet') => (Normalised(packet) \/ call'.op \in SetTransformsOps)]_vars

-----------------------------------------------------------------------------
(* C22 *)

\* C22: a set_transforms / set_transforms_v2 call that aborts (more than 255
\* entries, or an empty list) leaves the packet's number_of_transforms and
\* all of its attached transform vectors as they were before the call.
C22_FailedCallLeavesPacketUnchanged ==
    [][(call'.op \in SetTransformsOps /\ call'.outcome = "panic")
          => /\ NumberOfTransforms(packet') = NumberOfTransforms(packet)
             /\ AttachedTransforms(packet') = AttachedTransforms(packet)]_vars

-----------------------------------------------------------------------------
(* C23 *)

\* how a set_transforms_v2 call must end: it aborts when the DH-group list is
\* empty whatever the other lists hold, and returns when the DH-group list is
\* non-empty and there are 255 entries at most in all
EndsAsChainAllows(lists, outcome) ==
    /\ lists[4] = <<>> => outcome = "panic"
    /\ (lists[4] # <<>> /\ TotalLen(lists) <= U8Max) => outcome = "ok"

\* the list lengths tried for one category of the generated v2 lists
TriedLengths(list) == {0, 1, Len(list)}

\* C23: set_transforms aborts on an empty transform list and returns for every
\* list of 1..255 entries; set_transforms_v2 aborts whenever the DH-group list
\* is empty, also when the encryption, PRF or integrity lists are not, and
\* returns for every input with a non-empty DH-group list and 255 entries at
\* most in all.
C23_RejectsChainsWithoutLastEntry ==
    /\ call.op = "set_transforms"
        => /\ call.arg = <<>> => call.outcome = "panic"
           /\ Len(call.arg) \in 1..U8Max => call.outcome = "ok"
    /\ call.op = "set_transforms_v2"
        => EndsAsChainAllows(call.arg, call.outcome)
    /\ call.op = "build_transforms"
        => \A n \in 0..U8Max :
              set_transforms(packet, Prefix(ret, n)).outcome
                = IF n = 0 THEN "panic" ELSE "ok"
    /\ call.op = "build_transforms_v2"
        => \A e \in TriedLengths(ret[1]), p \in TriedLengths(ret[2]),
              i \in TriedLengths(ret[3]), d \in TriedLengths(ret[4]) :
              LET lists == <<Prefix(ret[1], e), Prefix(ret[2], p),
                             Prefix(ret[3], i), Prefix(ret[4], d)>>
              IN  EndsAsChainAllows(lists,
                      set_transforms_v2(packet, lists[1], lists[2], lists[3],
                                        lists[4]).outcome)

\* set_transforms_v2 aborted on an empty DH-group list handed over with
\* non-empty encryption, PRF and integrity lists
C23_Witness ==
    /\ call.op = "set_transforms_v2"
    /\ call.arg[4] = <<>>
    /\ call.arg[1] # <<>> /\ call.arg[2] # <<>> /\ call.arg[3] # <<>>
    /\ call.outcome = "panic"

=============================================================================
